---- MODULE Spec2Model ----
(***************************************************************************)
(* JiraD (src/JiraD.go): a CSV export of issue-tracker tickets is turned   *)
(* into PlantUML object-model text.  The model follows main -> process ->  *)
(* processSupplementalFile -> processFile -> readHeader / readIssues ->    *)
(* writeOutput, one action per step of that control flow.  Lines, cells    *)
(* and keys are strings, and are split, trimmed, upper-cased and stripped  *)
(* of hyphens character by character, as the Go code does.                 *)
(***************************************************************************)
EXTENDS Integers, Sequences, FiniteSets, TLC

VARIABLES
    pc,          \* position in main/process
    options,     \* Options struct built by loadOptions
    issues,      \* map[string]IssueInfo of process
    headerInfo,  \* HeaderInfo of the file being read by processFile
    suppLines,   \* lines scanned so far from the supplemental file (header first)
    primLines,   \* lines scanned so far from the input file (header first)
    rowsRead,    \* the rows readIssues has split so far, with file and header
    output,      \* lines handed to the bufio.Writer by writeOutput
    rendered,    \* TRUE once writeOutput has been called
    flushed,     \* TRUE once output.Flush() has succeeded
    stderr,      \* messages written to os.Stderr
    exitCode     \* -1 while running, then the exit status of the process

vars == <<pc, options, issues, headerInfo, suppLines, primLines, rowsRead, output,
          rendered, flushed, stderr, exitCode>>

----------------------------------------------------------------------------
(* Bounds of the model *)

MaxSuppRows == 1      \* data rows read from the supplemental file
MaxPrimRows == 2      \* data rows read from the input file

(* Program constants *)

DefaultWrapWidth == 150

----------------------------------------------------------------------------
(* strings package, character by character *)

\* the positions of the separator sep in s
SepPositions(s, sep) == {i \in 1..Len(s) : SubSeq(s, i, i) = sep}

\* the n-th smallest element of the set P of positions
NthPosition(P, n) == CHOOSE i \in P : Cardinality({j \in P : j < i}) = n - 1

\* strings.Split(s, sep) for a one-character separator: the fields between
\* consecutive separators, one more than there are separators
Split(s, sep) ==
    LET P == SepPositions(s, sep)
        n == Cardinality(P) + 1
    IN [k \in 1..n |->
          SubSeq(s, IF k = 1 THEN 1 ELSE NthPosition(P, k - 1) + 1,
                    IF k = n THEN Len(s) ELSE NthPosition(P, k) - 1)]

IsSpace(c) == c \in {" ", "\t", "\r"}

RECURSIVE TrimLeft(_)
TrimLeft(s) ==
    IF Len(s) > 0 /\ IsSpace(SubSeq(s, 1, 1))
    THEN TrimLeft(SubSeq(s, 2, Len(s)))
    ELSE s

RECURSIVE TrimRight(_)
TrimRight(s) ==
    IF Len(s) > 0 /\ IsSpace(SubSeq(s, Len(s), Len(s)))
    THEN TrimRight(SubSeq(s, 1, Len(s) - 1))
    ELSE s

\* strings.TrimSpace
TrimSpace(s) == TrimRight(TrimLeft(s))

LowerLetters == "abcdefghijklmnopqrstuvwxyz"
UpperLetters == "ABCDEFGHIJKLMNOPQRSTUVWXYZ"

UpperChar(c) ==
    IF \E i \in 1..Len(LowerLetters) : SubSeq(LowerLetters, i, i) = c
    THEN LET i == CHOOSE j \in 1..Len(LowerLetters) : SubSeq(LowerLetters, j, j) = c
         IN SubSeq(UpperLetters, i, i)
    ELSE c

RECURSIVE ToUpper(_)
\* strings.ToUpper
ToUpper(s) ==
    IF Len(s) = 0 THEN ""
    ELSE UpperChar(SubSeq(s, 1, 1)) \o ToUpper(SubSeq(s, 2, Len(s)))

RECURSIVE StripChar(_, _)
StripChar(s, c) ==
    IF Len(s) = 0 THEN ""
    ELSE (IF SubSeq(s, 1, 1) = c THEN "" ELSE SubSeq(s, 1, 1))
         \o StripChar(SubSeq(s, 2, Len(s)), c)

\* normalizeKey: strings.ReplaceAll(key, "-", "")
normalizeKey(key) == StripChar(key, "-")

DecimalDigits == "0123456789"

RECURSIVE Itoa(_)
\* fmt %d of a non-negative int
Itoa(n) ==
    IF n < 10 THEN SubSeq(DecimalDigits, n + 1, n + 1)
    ELSE Itoa(n \div 10) \o SubSeq(DecimalDigits, (n % 10) + 1, (n % 10) + 1)

Range(s) == {s[i] : i \in DOMAIN s}

Put(m, k, v) == [x \in (DOMAIN m) \cup {k} |-> IF x = k THEN v ELSE m[x]]

----------------------------------------------------------------------------
(* Inputs: command lines, header lines and data lines *)

\* flag values of loadOptions; each record is one command line
CommandLines ==
    LET base == [supplemental |-> "", hideSummary |-> FALSE, hideOrphans |-> TRUE,
                 hideKeys |-> "", showKeys |-> "", highlightKeys |-> "",
                 highlightColor |-> "paleGreen", wrapWidth |-> DefaultWrapWidth]
        hide == [base EXCEPT !.hideKeys = "TKT-3"]
        both == [base EXCEPT !.hideKeys = "TKT-3,TKT-9", !.showKeys = "TKT-3"]
        all  == [base EXCEPT !.hideOrphans = FALSE, !.hideSummary = TRUE,
                             !.highlightKeys = "TKT-1", !.wrapWidth = 80]
        cmds == {base, hide, both, all}
    IN cmds \cup {[c EXCEPT !.supplemental = "extra.csv"] : c \in {base, both}}

HeaderLines ==
    { "Issue key,Status,Inward issue link (Blocks),Outward issue link (Blocks)",
      "Issue key,Summary,Inward issue link (Blocks),Inward issue link (Blocks),Outward issue link (Blocks),Status",
      "Status,Component,Issue key,Outward issue link (Blocks),Outward issue link (Blocks),Summary",
      "issue key,Status",
      "" }

DataLines ==
    { "TKT-1,Open,,TKT-2",
      "TKT-2,Done,,",
      "TKT-1,Closed,TKT-3,",
      "TKT-3",
      " ,Open,TKT-1,TKT-2",
      " TKT-2 ,Fix it,TKT-3,TKT-1,TKT-1,Done" }

\* the lines of the hand-crafted supplemental file
SupplementalLines ==
    { "TKT-1,Closed,TKT-3,",
      ",Open,TKT-2,TKT-1" }

----------------------------------------------------------------------------
(* Options *)

\* parseKeys: the set of the comma-separated keys, empty for the empty string
parseKeys(keys) == IF Len(keys) > 0 THEN Range(Split(keys, ",")) ELSE {}

\* loadOptions: the Options struct of one command line
loadOptions(cmd) ==
    [supplementalFilename |-> cmd.supplemental,
     hideSummary    |-> cmd.hideSummary,
     hideOrphans    |-> cmd.hideOrphans,
     hideKeys       |-> parseKeys(cmd.hideKeys),
     showKeys       |-> parseKeys(cmd.showKeys),
     highlightKeys  |-> parseKeys(cmd.highlightKeys),
     highlightColor |-> cmd.highlightColor,
     wrapWidth      |-> cmd.wrapWidth]

----------------------------------------------------------------------------
(* Column resolver: readHeader.  Indices are zero-based as in the source;  *)
(* the cell at index idx of a row is columns[idx + 1].                     *)

EmptyHeaderInfo ==
    [issueKeyIdx |-> -1, summaryIdx |-> -1, statusIdx |-> -1,
     blockedIdx |-> <<>>, blockerIdx |-> <<>>]

\* HeaderCase keeping only the first inward and the first outward column
HeaderCaseFirstOnly(h, i, col) ==
    CASE col = "Issue key" -> [h EXCEPT !.issueKeyIdx = i]
      [] col = "Summary"   -> [h EXCEPT !.summaryIdx = i]
      [] col = "Status"    -> [h EXCEPT !.statusIdx = i]
      [] col = "Inward issue link (Blocks)"  ->
           [h EXCEPT !.blockerIdx = IF @ = <<>> THEN <<i>> ELSE @]
      [] col = "Outward issue link (Blocks)" ->
           [h EXCEPT !.blockedIdx = IF @ = <<>> THEN <<i>> ELSE @]
      [] OTHER -> h

\* the switch of readHeader for the cell col at index i
HeaderCase(h, i, col) ==
    CASE col = "Issue key" -> [h EXCEPT !.issueKeyIdx = i]
      [] col = "Summary"   -> [h EXCEPT !.summaryIdx = i]
      [] col = "Status"    -> [h EXCEPT !.statusIdx = i]
      [] col = "Inward issue link (Blocks)"  -> [h EXCEPT !.blockerIdx = Append(@, i)]
      [] col = "Outward issue link (Blocks)" -> [h EXCEPT !.blockedIdx = Append(@, i)]
      [] OTHER -> h

RECURSIVE HeaderLoop(_, _, _)
HeaderLoop(columns, n, h) ==
    IF n > Len(columns) THEN h
    ELSE HeaderLoop(columns, n + 1, HeaderCase(h, n - 1, columns[n]))

\* HeaderError testing the summary column instead of the identifier column
HeaderErrorOnSummary(h) == h.summaryIdx = -1

\* if headerInfo.issueKeyIdx == -1
HeaderError(h) == h.issueKeyIdx = -1

\* readHeader: the resolved indices and whether an error is returned
readHeader(line) ==
    LET h == HeaderLoop(Split(line, ","), 1, EmptyHeaderInfo)
    IN [headerInfo |-> h, err |-> HeaderError(h)]

----------------------------------------------------------------------------
(* Record merger: readIssues, loadBlockers, loadBlocked *)

\* the zero value of IssueInfo (var issue IssueInfo)
ZeroIssue ==
    [issueKey |-> "", summary |-> "", status |-> "",
     blockedKeys |-> <<>>, blockerKeys |-> <<>>]

\* the cell at zero-based index idx; read only when HasCol holds
Cell(columns, idx) == columns[idx + 1]

\* HasCol with the comparison off by one
HasColOffByOne(columns, idx) == Len(columns) >= idx

\* len(columns) > idx
HasCol(columns, idx) == Len(columns) > idx

\* the stub loadBlockers stores for a blocker that has no record yet
BlockerStub(blockerKey, issue) ==
    [ZeroIssue EXCEPT !.issueKey = blockerKey,
                      !.blockedKeys = Append(ZeroIssue.blockerKeys, issue.issueKey)]

\* the stub loadBlocked stores for a blocked issue that has no record yet
BlockedStub(blockedKey, issue) ==
    [ZeroIssue EXCEPT !.issueKey = blockedKey,
                      !.blockerKeys = Append(ZeroIssue.blockerKeys, issue.issueKey)]

\* RefKept, testing the show set where the code tests the hide set
RefKeptByShowSet(opts, key) == key \notin opts.showKeys

\* !hideBlocker / !hideBlocked: the reference is taken
RefKept(opts, key) == key \notin opts.hideKeys

\* BlockerStep that appends the blocker and stores no stub for it
BlockerStepWithoutStub(idx, columns, opts, st) ==
    IF HasCol(columns, idx) /\ Len(Cell(columns, idx)) > 0
       /\ RefKept(opts, Cell(columns, idx))
    THEN [issue  |-> [st.issue EXCEPT !.blockerKeys = Append(@, Cell(columns, idx))],
          issues |-> st.issues]
    ELSE st

\* the body of loadBlockers' loop for one index of hdr.blockerIdx
BlockerStep(idx, columns, opts, st) ==
    IF HasCol(columns, idx) /\ Len(Cell(columns, idx)) > 0
       /\ RefKept(opts, Cell(columns, idx))
    THEN LET blockerKey == Cell(columns, idx)
         IN [issue  |-> [st.issue EXCEPT !.blockerKeys = Append(@, blockerKey)],
             issues |-> IF blockerKey \in DOMAIN st.issues
                        THEN st.issues
                        ELSE Put(st.issues, blockerKey, BlockerStub(blockerKey, st.issue))]
    ELSE st

\* the body of loadBlocked's loop for one index of hdr.blockedIdx
BlockedStep(idx, columns, opts, st) ==
    IF HasCol(columns, idx) /\ Len(Cell(columns, idx)) > 0
       /\ RefKept(opts, Cell(columns, idx))
    THEN LET blockedKey == Cell(columns, idx)
         IN [issue  |-> [st.issue EXCEPT !.blockedKeys = Append(@, blockedKey)],
             issues |-> IF blockedKey \in DOMAIN st.issues
                        THEN st.issues
                        ELSE Put(st.issues, blockedKey, BlockedStub(blockedKey, st.issue))]
    ELSE st

RECURSIVE loadBlockersFrom(_, _, _, _, _)
loadBlockersFrom(n, hdr, columns, opts, st) ==
    IF n > Len(hdr.blockerIdx) THEN st
    ELSE loadBlockersFrom(n + 1, hdr, columns, opts,
                          BlockerStep(hdr.blockerIdx[n], columns, opts, st))

RECURSIVE loadBlockedFrom(_, _, _, _, _)
loadBlockedFrom(n, hdr, columns, opts, st) ==
    IF n > Len(hdr.blockedIdx) THEN st
    ELSE loadBlockedFrom(n + 1, hdr, columns, opts,
                         BlockedStep(hdr.blockedIdx[n], columns, opts, st))

\* loadBlockers / loadBlocked: st is the pair (issue, issues) they update
loadBlockers(hdr, columns, opts, st) ==
    loadBlockersFrom(1, hdr, columns, opts, st)

loadBlocked(hdr, columns, opts, st) ==
    loadBlockedFrom(1, hdr, columns, opts, st)

\* showIt || !hideIt
RowKept(opts, issueKey) ==
    issueKey \in opts.showKeys \/ issueKey \notin opts.hideKeys

\* the issue built from the row before the relation columns are loaded
NewIssue(hdr, columns, issueKey) ==
    [ZeroIssue EXCEPT
       !.issueKey = issueKey,
       !.summary  = IF hdr.summaryIdx # -1 /\ HasCol(columns, hdr.summaryIdx)
                    THEN Cell(columns, hdr.summaryIdx) ELSE "",
       !.status   = IF hdr.statusIdx # -1 /\ HasCol(columns, hdr.statusIdx)
                    THEN Cell(columns, hdr.statusIdx) ELSE ""]

\* StoreIssue that keeps a record already in the map
StoreIssueIfAbsent(st) ==
    IF st.issue.issueKey \in DOMAIN st.issues THEN st.issues
    ELSE Put(st.issues, st.issue.issueKey, st.issue)

\* (*issues)[issue.issueKey] = issue
StoreIssue(st) == Put(st.issues, st.issue.issueKey, st.issue)

\* RowKey without strings.TrimSpace
RowKeyUntrimmed(hdr, columns) ==
    IF HasCol(columns, hdr.issueKeyIdx) THEN Cell(columns, hdr.issueKeyIdx) ELSE ""

\* the trimmed identifier of a row, "" when the row is too short to hold it
RowKey(hdr, columns) ==
    IF HasCol(columns, hdr.issueKeyIdx)
    THEN TrimSpace(Cell(columns, hdr.issueKeyIdx))
    ELSE ""

\* the body of readIssues' loop after the split: the map after the row
readIssuesColumns(columns, hdr, opts, iss) ==
    LET issueKey == RowKey(hdr, columns)
    IN IF Len(issueKey) > 0 /\ RowKept(opts, issueKey)
       THEN LET st0 == [issue |-> NewIssue(hdr, columns, issueKey), issues |-> iss]
                st1 == loadBlockers(hdr, columns, opts, st0)
                st2 == loadBlocked(hdr, columns, opts, st1)
            IN StoreIssue(st2)
       ELSE iss

\* one iteration of readIssues' loop: the map after the line is processed
readIssuesRow(line, hdr, opts, iss) ==
    readIssuesColumns(Split(line, ","), hdr, opts, iss)

\* the bounds check of the Go runtime on columns[idx]
IndexInRange(columns, idx) == idx >= 0 /\ idx < Len(columns)

\* the indices among idxs at which loadBlockers / loadBlocked index the row
RelationCellsRead(idxs, columns) ==
    {idxs[n] : n \in {j \in DOMAIN idxs : HasCol(columns, idxs[j])}}

\* the indices at which readIssues, loadBlockers and loadBlocked index the row;
\* indexing stops at an index the runtime rejects
CellsRead(hdr, columns, opts) ==
    IF ~HasCol(columns, hdr.issueKeyIdx) THEN {}
    ELSE IF ~IndexInRange(columns, hdr.issueKeyIdx) THEN {hdr.issueKeyIdx}
    ELSE {hdr.issueKeyIdx} \cup
         IF Len(RowKey(hdr, columns)) > 0 /\ RowKept(opts, RowKey(hdr, columns))
         THEN (IF hdr.summaryIdx # -1 /\ HasCol(columns, hdr.summaryIdx)
               THEN {hdr.summaryIdx} ELSE {})
              \cup (IF hdr.statusIdx # -1 /\ HasCol(columns, hdr.statusIdx)
                    THEN {hdr.statusIdx} ELSE {})
              \cup RelationCellsRead(hdr.blockerIdx, columns)
              \cup RelationCellsRead(hdr.blockedIdx, columns)
         ELSE {}

\* the row makes the runtime panic: an index out of range is used on it
RowPanics(hdr, columns, opts) ==
    \E idx \in CellsRead(hdr, columns, opts) : ~IndexInRange(columns, idx)

PanicMessage == "panic: runtime error: index out of range"

RECURSIVE readIssuesFrom(_, _, _, _, _)
\* readIssues over the data lines lines[n..]
readIssuesFrom(n, lines, hdr, opts, iss) ==
    IF n > Len(lines) THEN iss
    ELSE readIssuesFrom(n + 1, lines, hdr, opts,
                        readIssuesRow(lines[n], hdr, opts, iss))

\* make(map[string]IssueInfo)
EmptyIssues == [k \in {} |-> ZeroIssue]

----------------------------------------------------------------------------
(* Renderer: writeOutput *)

\* getHighlight
getHighlight(key, opts) ==
    IF key \in opts.highlightKeys THEN "#" \o opts.highlightColor ELSE ""

\* ObjectShown without the showIt test
ObjectShownWithoutShowKeys(issue, opts) ==
    \/ ~opts.hideOrphans
    \/ Len(issue.blockedKeys) > 0
    \/ Len(issue.blockerKeys) > 0

\* ObjectShown with the negation of hideOrphans dropped
ObjectShownNegationDropped(issue, opts) ==
    \/ issue.issueKey \in opts.showKeys
    \/ opts.hideOrphans
    \/ Len(issue.blockedKeys) > 0
    \/ Len(issue.blockerKeys) > 0

\* the condition under which writeOutput declares an object for the issue
ObjectShown(issue, opts) ==
    \/ issue.issueKey \in opts.showKeys
    \/ ~opts.hideOrphans
    \/ Len(issue.blockedKeys) > 0
    \/ Len(issue.blockerKeys) > 0

EffectiveStatus(issue) == IF Len(issue.status) > 0 THEN issue.status ELSE "unknown"

\* the first line of an object declaration
ObjectHead(issue, opts) ==
    "object " \o normalizeKey(issue.issueKey) \o " "
              \o getHighlight(issue.issueKey, opts) \o " {"

\* the lines of one object declaration
ObjectLines(issue, opts) ==
    <<ObjectHead(issue, opts), "  " \o ToUpper(EffectiveStatus(issue))>>
    \o (IF ~opts.hideSummary /\ Len(issue.summary) > 0
        THEN <<"  " \o issue.summary>> ELSE <<>>)
    \o <<"}">>

RelationLine(fromKey, toKey) == normalizeKey(fromKey) \o " <|-- " \o normalizeKey(toKey)

\* the relationship lines of one issue, one per entry of blockedKeys
RelationLines(issue) ==
    [i \in 1..Len(issue.blockedKeys) |-> RelationLine(issue.issueKey, issue.blockedKeys[i])]

\* the lines written for the key k, among the pairs <<key, lines>> of written
LinesOf(written, k) == (CHOOSE p \in written : p[1] = k)[2]

\* the lines of the first loop when the range visits the keys in this order;
\* written holds, for each key, the lines its iteration writes
RECURSIVE ObjectSection(_, _)
ObjectSection(order, written) ==
    IF order = <<>> THEN <<>>
    ELSE LinesOf(written, Head(order)) \o ObjectSection(Tail(order), written)

\* the lines of the second loop when the range visits the keys in this order
RECURSIVE RelationSection(_, _)
RelationSection(order, written) ==
    IF order = <<>> THEN <<>>
    ELSE LinesOf(written, Head(order)) \o RelationSection(Tail(order), written)

\* the orders in which a range over the map can visit the keys of S
Orders(S) ==
    {o \in [1..Cardinality(S) -> S] : \A i, j \in DOMAIN o : i # j => o[i] # o[j]}

\* the keys whose iteration writes something in the first / second loop
ObjectKeys(iss, opts) == {k \in DOMAIN iss : ObjectShown(iss[k], opts)}
RelationKeys(iss) == {k \in DOMAIN iss : Len(iss[k].blockedKeys) > 0}

\* what the first / second loop of writeOutput can write, one sequence of lines
\* for each order in which the range can visit the map
ObjectSections(iss, opts) ==
    LET written == {<<k, ObjectLines(iss[k], opts)>> : k \in ObjectKeys(iss, opts)}
    IN {ObjectSection(order, written) : order \in Orders(ObjectKeys(iss, opts))}

RelationSections(iss) ==
    LET written == {<<k, RelationLines(iss[k])>> : k \in RelationKeys(iss)}
    IN {RelationSection(order, written) : order \in Orders(RelationKeys(iss))}

\* OutputLines with the relationship lines written before the objects
OutputLinesRelationsFirst(objects, relations, opts) ==
    <<"@startuml", "skinparam wrapWidth " \o Itoa(opts.wrapWidth)>>
    \o relations \o objects \o <<"@enduml">>

\* the lines writeOutput writes around and with the two sections
OutputLines(objects, relations, opts) ==
    <<"@startuml", "skinparam wrapWidth " \o Itoa(opts.wrapWidth)>>
    \o objects \o relations \o <<"@enduml">>

----------------------------------------------------------------------------
(* The run: main and process *)

Init ==
    /\ pc = "main"
    /\ \E cmd \in CommandLines : options = loadOptions(cmd)
    /\ issues = EmptyIssues
    /\ headerInfo = EmptyHeaderInfo
    /\ suppLines = <<>>
    /\ primLines = <<>>
    /\ rowsRead = <<>>
    /\ output = <<>>
    /\ rendered = FALSE
    /\ flushed = FALSE
    /\ stderr = <<>>
    /\ exitCode = -1

\* main: os.Open of the input file fails
OpenInputFails ==
    /\ pc = "main"
    /\ pc' = "exit"
    /\ stderr' = Append(stderr, "can't read input file")
    /\ exitCode' = 1
    /\ UNCHANGED <<options, rowsRead, issues, headerInfo, suppLines, primLines,
                   output, rendered, flushed>>

\* main: os.Create of the output file fails
CreateOutputFails ==
    /\ pc = "main"
    /\ pc' = "exit"
    /\ stderr' = Append(stderr, "can't create output file")
    /\ exitCode' = 1
    /\ UNCHANGED <<options, rowsRead, issues, headerInfo, suppLines, primLines,
                   output, rendered, flushed>>

\* main: both files are open and process is called
OpenFiles ==
    /\ pc = "main"
    /\ pc' = "supplemental"
    /\ UNCHANGED <<options, rowsRead, issues, headerInfo, suppLines, primLines,
                   output, rendered,
                   flushed, stderr, exitCode>>

\* processSupplementalFile: no supplemental file is named
SupplementalAbsent ==
    /\ pc = "supplemental"
    /\ Len(options.supplementalFilename) = 0
    /\ pc' = "input"
    /\ UNCHANGED <<options, rowsRead, issues, headerInfo, suppLines, primLines,
                   output, rendered,
                   flushed, stderr, exitCode>>

\* SupplementalOpenFails with the error returned to main
SupplementalOpenFailsFatal ==
    /\ pc = "supplemental"
    /\ Len(options.supplementalFilename) > 0
    /\ pc' = "exit"
    /\ stderr' = Append(stderr, "Problem processing supplemental: couldn't open")
    /\ exitCode' = 1
    /\ UNCHANGED <<options, rowsRead, issues, headerInfo, suppLines, primLines,
                   output, rendered,
                   flushed>>

\* processSupplementalFile: os.Open fails; process logs and continues
SupplementalOpenFails ==
    /\ pc = "supplemental"
    /\ Len(options.supplementalFilename) > 0
    /\ pc' = "input"
    /\ stderr' = Append(stderr, "Problem processing supplemental: couldn't open")
    /\ UNCHANGED <<options, rowsRead, issues, headerInfo, suppLines, primLines,
                   output, rendered,
                   flushed, exitCode>>

\* processFile on the supplemental file: readHeader
SupplementalHeader ==
    /\ pc = "supplemental"
    /\ Len(options.supplementalFilename) > 0
    /\ \E line \in HeaderLines :
         /\ suppLines' = <<line>>
         /\ headerInfo' = readHeader(line).headerInfo
         /\ IF readHeader(line).err
            THEN /\ pc' = "input"
                 /\ stderr' = Append(stderr,
                        "Problem processing supplemental: processing problem: header failure")
            ELSE /\ pc' = "supplementalRows"
                 /\ UNCHANGED stderr
    /\ UNCHANGED <<options, rowsRead, issues, primLines, output, rendered,
                   flushed, exitCode>>

\* readIssues on the supplemental file: one data line.  An index out of range
\* ends the process with the exit status of a Go panic.
SupplementalRow ==
    /\ pc = "supplementalRows"
    /\ Len(suppLines) - 1 < MaxSuppRows
    /\ \E line \in SupplementalLines :
         /\ suppLines' = Append(suppLines, line)
         /\ rowsRead' = Append(rowsRead, [file |-> "supplemental", hdr |-> headerInfo,
                                          columns |-> Split(line, ",")])
         /\ IF RowPanics(headerInfo, Split(line, ","), options)
            THEN /\ pc' = "exit"
                 /\ exitCode' = 2
                 /\ stderr' = Append(stderr, PanicMessage)
                 /\ UNCHANGED issues
            ELSE /\ issues' = readIssuesRow(line, headerInfo, options, issues)
                 /\ UNCHANGED <<pc, stderr, exitCode>>
    /\ UNCHANGED <<options, headerInfo, primLines, output, rendered, flushed>>

\* readIssues on the supplemental file: end of file
SupplementalEnd ==
    /\ pc = "supplementalRows"
    /\ pc' = "input"
    /\ UNCHANGED <<options, rowsRead, issues, headerInfo, suppLines, primLines,
                   output, rendered,
                   flushed, stderr, exitCode>>

\* processFile on the input file: readHeader; an error ends the run
InputHeader ==
    /\ pc = "input"
    /\ \E line \in HeaderLines :
         /\ primLines' = <<line>>
         /\ headerInfo' = readHeader(line).headerInfo
         /\ IF readHeader(line).err
            THEN /\ pc' = "exit"
                 /\ stderr' = Append(stderr,
                        "processing failed: input failure: header failure")
                 /\ exitCode' = 1
            ELSE /\ pc' = "inputRows"
                 /\ UNCHANGED <<stderr, exitCode>>
    /\ UNCHANGED <<options, rowsRead, issues, suppLines, output, rendered, flushed>>

\* readIssues on the input file: one data line.  An index out of range ends
\* the process with the exit status of a Go panic.
InputRow ==
    /\ pc = "inputRows"
    /\ Len(primLines) - 1 < MaxPrimRows
    /\ \E line \in DataLines :
         /\ primLines' = Append(primLines, line)
         /\ rowsRead' = Append(rowsRead, [file |-> "input", hdr |-> headerInfo,
                                          columns |-> Split(line, ",")])
         /\ IF RowPanics(headerInfo, Split(line, ","), options)
            THEN /\ pc' = "exit"
                 /\ exitCode' = 2
                 /\ stderr' = Append(stderr, PanicMessage)
                 /\ UNCHANGED issues
            ELSE /\ issues' = readIssuesRow(line, headerInfo, options, issues)
                 /\ UNCHANGED <<pc, stderr, exitCode>>
    /\ UNCHANGED <<options, headerInfo, suppLines, output, rendered, flushed>>

\* readIssues on the input file: end of file
InputEnd ==
    /\ pc = "inputRows"
    /\ pc' = "write"
    /\ UNCHANGED <<options, rowsRead, issues, headerInfo, suppLines, primLines,
                   output, rendered,
                   flushed, stderr, exitCode>>

\* FlushResult with the error of Flush logged and not returned
FlushResultLogOnly(ok) ==
    IF ok THEN [code |-> 0, log |-> <<>>]
    ELSE [code |-> 0, log |-> <<"processing failed: output failure: couldn't flush">>]

\* the result of output.Flush(): nil, or an error that process and main pass on
FlushResult(ok) ==
    IF ok THEN [code |-> 0, log |-> <<>>]
    ELSE [code |-> 1, log |-> <<"processing failed: output failure: couldn't flush">>]

\* writeOutput, and the return of process to main.  The two range loops visit the
\* map in orders chosen by the runtime; the flush may fail.  The first WriteString
\* cannot fail: it goes to the empty buffer of a new bufio.Writer.
WriteOutput ==
    /\ pc = "write"
    /\ \E objects \in ObjectSections(issues, options),
          relations \in RelationSections(issues) :
         output' = OutputLines(objects, relations, options)
    /\ \E ok \in BOOLEAN :
         /\ flushed' = ok
         /\ exitCode' = FlushResult(ok).code
         /\ stderr' = stderr \o FlushResult(ok).log
    /\ rendered' = TRUE
    /\ pc' = "exit"
    /\ UNCHANGED <<options, rowsRead, issues, headerInfo, suppLines, primLines>>

Next ==
    \/ OpenInputFails
    \/ CreateOutputFails
    \/ OpenFiles
    \/ SupplementalAbsent
    \/ SupplementalOpenFails
    \/ SupplementalHeader
    \/ SupplementalRow
    \/ SupplementalEnd
    \/ InputHeader
    \/ InputRow
    \/ InputEnd
    \/ WriteOutput

Spec == Init /\ [][Next]_vars

----------------------------------------------------------------------------
(* What the run has read, for the statements below *)

\* the data rows read so far from a file, each with the header it is read under
RowsOf(file) == {r \in Range(rowsRead) : r.file = file}

RowsRead == Range(rowsRead)

\* the identifier of a row: its identifier cell without surrounding blanks
RowId(r) ==
    IF HasCol(r.columns, r.hdr.issueKeyIdx)
    THEN TrimSpace(Cell(r.columns, r.hdr.issueKeyIdx)) ELSE ""

Hidden(key) == key \in options.hideKeys /\ key \notin options.showKeys

\* the rows the merger keeps: identifier not blank and not hidden
KeptRows == {r \in RowsRead : RowId(r) # "" /\ ~Hidden(RowId(r))}

\* the non-blank values in the columns idxs of a row
RefsIn(r, idxs) ==
    {Cell(r.columns, idxs[j]) : j \in {n \in DOMAIN idxs : HasCol(r.columns, idxs[n])}}
      \ {""}

InwardRefs(r) == RefsIn(r, r.hdr.blockerIdx)
OutwardRefs(r) == RefsIn(r, r.hdr.blockedIdx)

IsPrefix(p, s) == Len(p) <= Len(s) /\ SubSeq(s, 1, Len(p)) = p

\* the output declares an object named id whose status line is status
DeclaresObject(id, status) ==
    \E i \in 1..(Len(output) - 1) :
        /\ IsPrefix("object " \o id \o " ", output[i])
        /\ output[i + 1] = "  " \o status

\* the output declares an object named id
DeclaresId(id) ==
    \E i \in 1..Len(output) : IsPrefix("object " \o id \o " ", output[i])

DefaultOptions ==
    [supplementalFilename |-> "", hideSummary |-> FALSE, hideOrphans |-> TRUE,
     hideKeys |-> {}, showKeys |-> {}, highlightKeys |-> {},
     highlightColor |-> "paleGreen", wrapWidth |-> DefaultWrapWidth]

ExampleLines ==
    << "Issue key,Status,Inward issue link (Blocks),Outward issue link (Blocks)",
       "TKT-1,Open,,TKT-2",
       "TKT-2,Done,," >>

----------------------------------------------------------------------------
(* C1: with the default options, the input made of the header              *)
(* `Issue key,Status,Inward issue link (Blocks),Outward issue link         *)
(* (Blocks)` and the rows `TKT-1,Open,,TKT-2`, `TKT-2,Done,,` yields an    *)
(* object for TKT1 with status OPEN, an object for TKT2 with status DONE   *)
(* and the line `TKT1 <|-- TKT2`.  The code declares no object for TKT2:   *)
(* its own row replaces the stub that held its blocker, the record is then *)
(* an orphan and hide-orphans suppresses it.                               *)
C1_ExampleOutput ==
    (rendered /\ flushed /\ options = DefaultOptions /\ primLines = ExampleLines)
    => /\ DeclaresObject("TKT1", "OPEN")
       /\ DeclaresObject("TKT2", "DONE")
       /\ "TKT1 <|-- TKT2" \in Range(output)

(* C2: a record's relationship lists only grow: an identifier in the       *)
(* blocked or blockers list of k's record stays there after every later    *)
(* row, also when k's own row is read after a stub for k exists.  The code *)
(* stores the record built from k's row over the stub and drops the stub's *)
(* lists.                                                                  *)
C2_ListsOnlyGrow ==
    [][\A k \in DOMAIN issues :
         /\ k \in DOMAIN issues'
         /\ Range(issues[k].blockedKeys) \subseteq Range(issues'[k].blockedKeys)
         /\ Range(issues[k].blockerKeys) \subseteq Range(issues'[k].blockerKeys)]_vars

(* C3: an identifier referenced by a kept row and never the identifier of  *)
(* a row has one record, without status and summary, whose blockers are    *)
(* exactly the rows listing it outward and whose blocked are exactly the   *)
(* rows listing it inward.  The code links a stub only to the row that     *)
(* creates it; later references to it are not recorded in it.              *)
C3_StubHoldsEveryReference ==
    \A r \in KeptRows : \A x \in (InwardRefs(r) \cup OutwardRefs(r)) \ options.hideKeys :
        (\A q \in RowsRead : RowId(q) # x)
        => /\ x \in DOMAIN issues
           /\ issues[x].issueKey = x
           /\ issues[x].status = ""
           /\ issues[x].summary = ""
           /\ Range(issues[x].blockerKeys) = {RowId(q) : q \in {p \in KeptRows : x \in OutwardRefs(p)}}
           /\ Range(issues[x].blockedKeys) = {RowId(q) : q \in {p \in KeptRows : x \in InwardRefs(p)}}

\* the output lines that open an object declaration / that are relationship lines
ObjectHeadsWritten == {output[i] : i \in {n \in DOMAIN output : IsPrefix("object ", output[n])}}

RelationLinesWritten ==
    {output[i] : i \in {n \in DOMAIN output :
        \E c \in 1..(Len(output[n]) - 5) : SubSeq(output[n], c, c + 5) = " <|-- "}}

HiddenKeys == options.hideKeys \ options.showKeys

(* C4: an identifier in the hide set and not in the show set never becomes *)
(* a key of the merged map, never enters a blocked or blockers list, and   *)
(* so every object declaration and every relationship line of the output   *)
(* is written for identifiers that are not hidden.                         *)
C4_HiddenKeysExcluded ==
    \A h \in HiddenKeys :
      /\ h \notin DOMAIN issues
      /\ \A k \in DOMAIN issues :
           h \notin Range(issues[k].blockedKeys) \cup Range(issues[k].blockerKeys)
      /\ ObjectHeadsWritten \subseteq
           {ObjectHead(issues[k], options) : k \in (DOMAIN issues) \ {h}}
      /\ RelationLinesWritten \subseteq
           {RelationLine(k, b) : k \in (DOMAIN issues) \ {h},
                                 b \in UNION {Range(issues[x].blockedKeys) : x \in DOMAIN issues}
                                       \ {h}}

\* a hidden identifier had its own row and was referenced by a kept row, and the
\* output was written with objects and relationship lines in it
C4_Witness ==
    /\ rendered
    /\ \E h \in HiddenKeys :
         /\ \E r \in RowsRead : RowId(r) = h
         /\ \E r \in KeptRows : h \in InwardRefs(r) \cup OutwardRefs(r)
    /\ ObjectHeadsWritten # {}
    /\ RelationLinesWritten # {}

\* the identifiers of the rows read so far
RowIds == {RowId(r) : r \in RowsRead}

(* C5: show overrides hide: a row whose identifier is in the hide set and  *)
(* in the show set is merged, and its record is declared in the object     *)
(* section, whether or not it has relations and with hide-orphans on.      *)
C5_ShowOverridesHide ==
    \A k \in options.hideKeys \cap options.showKeys :
      k \in RowIds =>
        /\ k \in DOMAIN issues
        /\ rendered => LET decl == ObjectLines(issues[k], options)
                        IN \E i \in 1..(Len(output) - Len(decl) + 1) :
                              SubSeq(output, i, i + Len(decl) - 1) = decl

\* the row of an identifier both hidden and shown was read, its record has no
\* relations, hide-orphans is on and the output was written
C5_Witness ==
    /\ rendered
    /\ options.hideOrphans
    /\ \E k \in (options.hideKeys \cap options.showKeys) \cap RowIds :
         /\ k \in DOMAIN issues
         /\ issues[k].blockedKeys = <<>>
         /\ issues[k].blockerKeys = <<>>

\* a record without relations that the options do not force to be shown
SuppressedOrphan(k) ==
    /\ options.hideOrphans
    /\ k \notin options.showKeys
    /\ issues[k].blockedKeys = <<>>
    /\ issues[k].blockerKeys = <<>>

(* C6: with hide-orphans on, a record with no blockers and no blocked that *)
(* is not in the show set gets no object declaration, and the line         *)
(* `<other> <|-- <it>` is still written for every other record that lists  *)
(* it as blocked.                                                          *)
C6_OrphanSuppressed ==
    rendered =>
      \A k \in DOMAIN issues :
        SuppressedOrphan(k) =>
          /\ ObjectHead(issues[k], options) \notin Range(output)
          /\ \A o \in (DOMAIN issues) \ {k} :
               k \in Range(issues[o].blockedKeys)
               => RelationLine(o, k) \in Range(output)

\* a suppressed orphan that another record lists as blocked, after rendering
C6_Witness ==
    /\ rendered
    /\ \E k \in DOMAIN issues :
         /\ SuppressedOrphan(k)
         /\ \E o \in (DOMAIN issues) \ {k} : k \in Range(issues[o].blockedKeys)

\* the line has an identifier cell under the header, and the cell holds blanks only
BlankIdentifier(line, hdr) ==
    LET columns == Split(line, ",")
    IN /\ HasCol(columns, hdr.issueKeyIdx)
       /\ \A i \in 1..Len(Cell(columns, hdr.issueKeyIdx)) :
            SubSeq(Cell(columns, hdr.issueKeyIdx), i, i) = " "

(* C7: processing a data row whose identifier cell is empty or holds only  *)
(* whitespace leaves the merged map unchanged.                             *)
C7_BlankRowChangesNothing ==
    [][\A line \in DataLines \cup SupplementalLines :
         (/\ \/ primLines' = Append(primLines, line)
             \/ suppLines' = Append(suppLines, line)
          /\ BlankIdentifier(line, headerInfo))
         => issues' = issues]_vars

\* a row with a blank identifier and filled relation columns was read after a
\* row that created a record
C7_Witness ==
    /\ Len(primLines) = 3
    /\ primLines[2] = "TKT-3"
    /\ primLines[3] = " ,Open,TKT-1,TKT-2"
    /\ headerInfo.blockerIdx # <<>>
    /\ DOMAIN issues = {"TKT-3"}

\* the last row of the input file whose identifier is k
LastPrimRow(k) ==
    LET mine == {i \in DOMAIN rowsRead : rowsRead[i].file = "input" /\ RowId(rowsRead[i]) = k}
    IN rowsRead[CHOOSE i \in mine : \A j \in mine : j <= i]

\* the cell of a row in column idx, "" when the column is unresolved or beyond the row
CellOrAbsent(r, idx) ==
    IF idx # -1 /\ HasCol(r.columns, idx) THEN Cell(r.columns, idx) ELSE ""

\* identifiers that have a kept row of their own in both sources
InBothSources ==
    {k \in {RowId(r) : r \in RowsOf("supplemental")} \cap {RowId(r) : r \in RowsOf("input")} :
        k # "" /\ ~Hidden(k)}

(* C8: the supplemental source is processed entirely before the primary    *)
(* source (no line of the primary source has been read while the           *)
(* supplemental source is being read), and a record whose identifier has a *)
(* row in both sources carries the summary and status of its last primary  *)
(* row.                                                                    *)
C8_PrimaryWins ==
    /\ pc \in {"main", "supplemental", "supplementalRows"} => primLines = <<>>
    /\ Len(suppLines) < 2 \/ Len(primLines) < 2 \/ \A k \in InBothSources :
         LET last == LastPrimRow(k)
         IN /\ k \in DOMAIN issues
            /\ issues[k].summary = CellOrAbsent(last, last.hdr.summaryIdx)
            /\ issues[k].status = CellOrAbsent(last, last.hdr.statusIdx)

\* TKT-1 is Closed in the supplemental source and Open in the primary one, and
\* the run has rendered the merged map
C8_Witness ==
    /\ rendered
    /\ Len(suppLines) >= 2 /\ suppLines[2] = "TKT-1,Closed,TKT-3,"
    /\ readHeader(suppLines[1]).headerInfo.statusIdx = 1
    /\ Len(primLines) >= 2 /\ primLines[Len(primLines)] = "TKT-1,Open,,TKT-2"
    /\ "TKT-1" \in InBothSources
    /\ issues["TKT-1"].status = "Open"

\* the map readIssues builds from the data lines of a file, started from the map start
MergedFrom(lines, start) ==
    IF lines = <<>> \/ readHeader(lines[1]).err THEN start
    ELSE readIssuesFrom(2, lines, readHeader(lines[1]).headerInfo, options, start)

\* the outputs writeOutput can write for the map m
OutputsOf(m) ==
    {OutputLines(objects, relations, options) :
        objects \in ObjectSections(m, options), relations \in RelationSections(m)}

\* the map readIssues builds from the rows in the sequence rows, started from m
RECURSIVE MergeRowSeq(_, _, _)
MergeRowSeq(rows, n, m) ==
    IF n > Len(rows) THEN m
    ELSE MergeRowSeq(rows, n + 1,
                     readIssuesColumns(rows[n].columns, rows[n].hdr, options, m))

\* out is one of the outputs writeOutput can write for the map m
IsOutputOf(out, m) ==
    LET objects   == ObjectSections(m, options)
        relations == RelationSections(m)
        n         == Len(out)
    IN /\ n >= 3
       /\ SubSeq(out, 1, 2) = SubSeq(OutputLines(<<>>, <<>>, options), 1, 2)
       /\ out[n] = OutputLines(<<>>, <<>>, options)[3]
       /\ \E i \in 2..(n - 1) : /\ SubSeq(out, 3, i) \in objects
                                /\ SubSeq(out, i + 1, n - 1) \in relations

\* the map readIssues builds from the rows read from the input file alone
MergedFromInput ==
    MergeRowSeq(SelectSeq(rowsRead, LAMBDA r : r.file = "input"), 1, EmptyIssues)

\* the supplemental source could not be opened, or its header was not resolved
SupplementalFailed ==
    \E i \in DOMAIN stderr : IsPrefix("Problem processing supplemental", stderr[i])

(* C9: a failure on the supplemental source is not fatal: the run goes on  *)
(* to the primary source, the merged map and the output are those of the   *)
(* primary source alone, and the exit code is zero once the primary header *)
(* is resolved and the output is flushed.                                  *)
C9_SupplementalFailureNotFatal ==
    SupplementalFailed =>
      /\ pc = "exit" => primLines # <<>>
      /\ issues = MergedFromInput
      /\ rendered => IsOutputOf(output, MergedFromInput)
      /\ (pc = "exit" /\ ~HeaderError(headerInfo)) => rendered
      /\ (pc = "exit" /\ flushed) => exitCode = 0

\* the supplemental source failed and the run ended with code zero and an output
\* that holds objects
C9_Witness ==
    /\ SupplementalFailed
    /\ pc = "exit"
    /\ exitCode = 0
    /\ flushed
    /\ Len(output) > 4

\* no cell of the header line equals `Issue key`
NoIdentifierColumn(line) == \A cell \in Range(Split(line, ",")) : cell # "Issue key"

\* the header line just read: every header line is the only line of its file in
\* the state that follows the step reading it
HeadersRead == {lines[1] : lines \in {l \in {suppLines, primLines} : Len(l) = 1}}

(* C10: header resolution fails exactly when no cell of the header row     *)
(* equals `Issue key`; when that happens on the primary source the run     *)
(* aborts: no data row of the primary source is merged, nothing is         *)
(* rendered, and the exit code is non-zero.                                *)
C10_HeaderFailure ==
    /\ \A line \in HeadersRead : readHeader(line).err <=> NoIdentifierColumn(line)
    /\ (primLines # <<>> /\ HeaderError(headerInfo))
       => /\ pc = "exit"
          /\ Len(primLines) = 1
          /\ issues = MergedFrom(suppLines, EmptyIssues)
          /\ ~rendered
          /\ output = <<>>
          /\ exitCode = 1
    /\ (primLines # <<>> /\ ~HeaderError(headerInfo))
       => "processing failed: input failure: header failure" \notin Range(stderr)

\* the primary header `issue key,Status` was read after the supplemental source
\* had been merged, and the run ended
C10_Witness ==
    /\ pc = "exit"
    /\ primLines = <<"issue key,Status">>
    /\ issues # EmptyIssues
    /\ exitCode = 1

\* input opening, output creation and primary header resolution succeeded, and the
\* run has ended
RanToRendering == pc = "exit" /\ primLines # <<>> /\ ~HeaderError(headerInfo)

FlushMessage == "processing failed: output failure: couldn't flush"

ReadsRow == Len(rowsRead') = Len(rowsRead) + 1

\* the row is too short to hold the column at index idx
BeyondEnd(r, idx) == idx >= Len(r.columns)

\* the indices of idxs that lie within the row
WithinRow(r, idxs) == {n \in DOMAIN idxs : idxs[n] < Len(r.columns)}

(* C12: short rows are tolerated: for every resolved header and every data *)
(* row of any length the merger reads no cell at an index greater than or  *)
(* equal to the row length (the run does not end in an index-out-of-range  *)
(* panic); a row too short to hold the identifier column is skipped; and a *)
(* summary, status or relation column beyond the end of a kept row is      *)
(* treated as absent.                                                      *)
C12_ShortRowsTolerated ==
    [][ReadsRow =>
         LET r == rowsRead'[Len(rowsRead')]
         IN /\ exitCode' = exitCode /\ pc' = pc
            /\ \A idx \in CellsRead(r.hdr, r.columns, options) : idx < Len(r.columns)
            /\ BeyondEnd(r, r.hdr.issueKeyIdx) => issues' = issues
            /\ (RowId(r) # "" /\ ~Hidden(RowId(r))) =>
                 /\ RowId(r) \in DOMAIN issues'
                 /\ BeyondEnd(r, r.hdr.summaryIdx) => issues'[RowId(r)].summary = ""
                 /\ BeyondEnd(r, r.hdr.statusIdx) => issues'[RowId(r)].status = ""
                 /\ Len(issues'[RowId(r)].blockerKeys)
                      <= Cardinality(WithinRow(r, r.hdr.blockerIdx))
                 /\ Len(issues'[RowId(r)].blockedKeys)
                      <= Cardinality(WithinRow(r, r.hdr.blockedIdx))]_vars

\* a row too short for the identifier column was read and skipped, and a kept row
\* ends before the summary column and before one of the outward columns
C12_Witness ==
    /\ exitCode = -1
    /\ \E r \in RowsRead : BeyondEnd(r, r.hdr.issueKeyIdx)
    /\ \E r \in KeptRows :
         /\ r.hdr.summaryIdx # -1 /\ BeyondEnd(r, r.hdr.summaryIdx)
         /\ \E n \in DOMAIN r.hdr.blockedIdx : BeyondEnd(r, r.hdr.blockedIdx[n])
         /\ RowId(r) \in DOMAIN issues
         /\ issues[RowId(r)].blockedKeys # <<>>

\* the zero-based indices of the cells of a header equal to name, in header order
RECURSIVE IndicesOf(_, _, _)
IndicesOf(cells, name, n) ==
    IF n > Len(cells) THEN <<>>
    ELSE (IF cells[n] = name THEN <<n - 1>> ELSE <<>>) \o IndicesOf(cells, name, n + 1)

\* the indices a resolved header gives to the recognized columns
ResolvedIndices(hdr) ==
    ({hdr.issueKeyIdx, hdr.summaryIdx, hdr.statusIdx} \ {-1})
    \cup Range(hdr.blockerIdx) \cup Range(hdr.blockedIdx)

\* the row with every cell blanked that is not under a resolved column: the cells
\* under unrecognized header names and those beyond the end of the header
RecognizedOnly(r) ==
    [i \in DOMAIN r.columns |->
        IF (i - 1) \in ResolvedIndices(r.hdr) THEN r.columns[i] ELSE ""]

\* the values of the columns idxs of a row, in the order of idxs, that are present,
\* not blank and not individually hidden
RefSeq(r, idxs) ==
    SelectSeq([n \in DOMAIN idxs |-> IF idxs[n] < Len(r.columns)
                                     THEN r.columns[idxs[n] + 1] ELSE ""],
              LAMBDA c : c # "" /\ c \notin options.hideKeys)

\* the header line just resolved into headerInfo
ResolvedHeaders ==
    IF Len(primLines) = 1 THEN {primLines[1]}
    ELSE IF primLines = <<>> /\ Len(suppLines) = 1 THEN {suppLines[1]} ELSE {}

\* the index idx is unresolved or points to a cell of the header equal to name
PointsTo(cells, idx, name) == idx = -1 \/ (idx < Len(cells) /\ cells[idx + 1] = name)

(* C13: when the header has several `Inward issue link (Blocks)` or        *)
(* several `Outward issue link (Blocks)` columns the resolver retains the  *)
(* index of every occurrence, in header order; the merger appends to the   *)
(* row's record the value of every one of those columns that is not blank  *)
(* and not in the hide set, not only of the first; and cells under         *)
(* unrecognized header names never affect the map.                         *)
C13_EveryRelationColumn ==
    [][/\ \A line \in ResolvedHeaders' :
            LET cells == Split(line, ",")
            IN /\ headerInfo'.blockerIdx = IndicesOf(cells, "Inward issue link (Blocks)", 1)
               /\ headerInfo'.blockedIdx = IndicesOf(cells, "Outward issue link (Blocks)", 1)
               /\ PointsTo(cells, headerInfo'.issueKeyIdx, "Issue key")
               /\ PointsTo(cells, headerInfo'.summaryIdx, "Summary")
               /\ PointsTo(cells, headerInfo'.statusIdx, "Status")
       /\ ReadsRow =>
            LET r == rowsRead'[Len(rowsRead')]
            IN /\ (RowId(r) # "" /\ ~Hidden(RowId(r))) =>
                    /\ issues'[RowId(r)].blockerKeys = RefSeq(r, r.hdr.blockerIdx)
                    /\ issues'[RowId(r)].blockedKeys = RefSeq(r, r.hdr.blockedIdx)
               /\ issues' = readIssuesColumns(RecognizedOnly(r), r.hdr, options, issues)]_vars

\* a kept row under a header with two inward columns has both values in its
\* record, after a row of the supplemental file with a non-blank cell under an
\* unrecognized header name was read
C13_Witness ==
    /\ \E r \in RowsOf("input") :
         /\ Len(r.hdr.blockerIdx) = 2
         /\ RowId(r) \in DOMAIN issues
         /\ Len(issues[RowId(r)].blockerKeys) = 2
    /\ \E r \in RowsOf("supplemental") : RecognizedOnly(r) # r.columns

\* every identifier in a list of a record of m is a key of m, and every record of
\* m is stored under its own identifier
ClosedUnderReferences(m) ==
    \A k \in DOMAIN m :
      /\ m[k].issueKey = k
      /\ Range(m[k].blockedKeys) \cup Range(m[k].blockerKeys) \subseteq DOMAIN m

(* C14: after every processed row the merged map is closed under           *)
(* references and never shrinks: every identifier in the blocked or        *)
(* blockers list of a record is itself a key of the map, every record is   *)
(* stored under its own identifier, and a key once present, stub or full   *)
(* record, is present in every later state.                                *)
C14_ClosedAndGrowing ==
    [][/\ ClosedUnderReferences(issues')
       /\ DOMAIN issues \subseteq DOMAIN issues']_vars

\* two rows were read, the second one replaced a record, and the map holds a stub
\* of an identifier without a row that a full record lists as its blocker
C14_Witness ==
    /\ Len(rowsRead) >= 2
    /\ RowId(rowsRead[1]) = RowId(rowsRead[2])
    /\ \E k \in (DOMAIN issues) \ RowIds :
         \E o \in RowIds \cap DOMAIN issues : k \in Range(issues[o].blockerKeys)

\* a line of an object declaration: its head, an indented line, or its end
IsObjectLine(l) == l = "}" \/ IsPrefix("  ", l) \/ IsPrefix("object ", l)

\* a line that is neither preamble nor trailer nor part of an object declaration
IsRelationshipLine(l) ==
    /\ l \notin {"@startuml", "@enduml"}
    /\ ~IsPrefix("skinparam wrapWidth ", l)
    /\ ~IsObjectLine(l)

\* the entries of the blocked lists: record identifier and position in its list
BlockedEntries ==
    UNION {{<<k, n>> : n \in DOMAIN issues[k].blockedKeys} : k \in DOMAIN issues}

\* `<record id without hyphens> <|-- <entry without hyphens>` of an entry
EntryLine(e) == StripChar(e[1], "-") \o " <|-- " \o StripChar(issues[e[1]].blockedKeys[e[2]], "-")

(* C15: the output is ordered in sections: `@startuml` is the first line,  *)
(* `skinparam wrapWidth <N>` the second, every object declaration precedes *)
(* every relationship line, `@enduml` is the last line and occurs exactly  *)
(* once; and for every record and every entry of its blocked list,         *)
(* duplicates included, exactly one relationship line `<record id without  *)
(* hyphens> <|-- <entry without hyphens>` is written.                      *)
C15_SectionOrder ==
    rendered =>
      LET n   == Len(output)
          obj == {i \in 1..n : IsObjectLine(output[i])}
          rel == (3..(n - 1)) \ obj    \* the other lines between preamble and trailer
      IN /\ n >= 3
         /\ output[1] = "@startuml"
         /\ output[2] = "skinparam wrapWidth "
                           \o (IF options.wrapWidth = DefaultWrapWidth THEN "150" ELSE "80")
         /\ output[n] = "@enduml"
         /\ \A i \in 1..(n - 1) : output[i] # "@enduml"
         /\ \A i \in obj : \A j \in rel : i < j
         /\ LET line == [e \in BlockedEntries |-> EntryLine(e)]
            IN \A l \in {output[i] : i \in rel} \cup {line[e] : e \in BlockedEntries} :
                 Cardinality({i \in rel : output[i] = l})
                   = Cardinality({e \in BlockedEntries : line[e] = l})

\* the output holds two object declarations, and the relationship lines of a
\* record that lists the same identifier twice as blocked and of another record
C15_Witness ==
    /\ rendered
    /\ Cardinality({i \in DOMAIN output : output[i] = "}"}) >= 2
    /\ \E k \in DOMAIN issues :
         /\ Len(issues[k].blockedKeys) = 2
         /\ issues[k].blockedKeys[1] = issues[k].blockedKeys[2]
         /\ \E o \in (DOMAIN issues) \ {k} : issues[o].blockedKeys # <<>>

\* the relationship line that shows that blocker blocks blocked
LinkLine(blocker, blocked) == StripChar(blocker, "-") \o " <|-- " \o StripChar(blocked, "-")

DeclarationsIn(out) ==
    {SubSeq(out, i, j) : <<i, j>> \in
        {p \in (DOMAIN out) \X (DOMAIN out) :
            /\ p[1] < p[2]
            /\ IsPrefix("object ", out[p[1]])
            /\ out[p[2]] = "}"
            /\ \A x \in p[1]..(p[2] - 1) : out[x] # "}"}}

\* how often the relationship line l occurs in an output
TimesIn(out, l) == Cardinality({i \in DOMAIN out : out[i] = l})

RelationshipLinesIn(out) == {out[i] : i \in {n \in DOMAIN out : IsRelationshipLine(out[n])}}

\* two outputs hold the same set of object declarations and the same multiset of
\* relationship lines
SameDiagram(o1, o2) ==
    /\ DeclarationsIn(o1) = DeclarationsIn(o2)
    /\ \A l \in RelationshipLinesIn(o1) \cup RelationshipLinesIn(o2) :
         TimesIn(o1, l) = TimesIn(o2, l)

\* the data rows were all read from the input file and have pairwise distinct
\* identifiers
DistinctRows ==
    /\ suppLines = <<>>
    /\ \A i, j \in DOMAIN rowsRead : i # j => RowId(rowsRead[i]) # RowId(rowsRead[j])

(* C17: the rendered output does not depend on the order of the data rows: *)
(* for a fixed header and fixed options, any two permutations of the same  *)
(* data rows with pairwise distinct identifiers yield the same set of      *)
(* object declarations and the same multiset of relationship lines.  The   *)
(* code links a stub to the first row that references it only, so which    *)
(* links are rendered depends on the order of the rows.                    *)
C17_RowOrderIrrelevant ==
    (rendered /\ flushed /\ DistinctRows) =>
      \A order \in Orders(DOMAIN rowsRead) :
        LET m == MergeRowSeq([i \in DOMAIN rowsRead |-> rowsRead[order[i]]], 1, EmptyIssues)
        IN \A other \in OutputsOf(m) : SameDiagram(output, other)

(* C18: show overrides hide for references too: when an identifier k is in *)
(* the hide set and in the show set and another kept row lists k in an     *)
(* inward or outward column, k is appended to that row's blockers or       *)
(* blocked list as an identifier in neither set would be.  The code tests  *)
(* the hide set alone for references and drops k.                          *)
C18_ShowOverridesHideForReferences ==
    [][ReadsRow =>
         LET r == rowsRead'[Len(rowsRead')]
         IN (RowId(r) # "" /\ ~Hidden(RowId(r))) =>
              \A k \in (options.hideKeys \cap options.showKeys) \ {RowId(r)} :
                /\ k \in InwardRefs(r) => k \in Range(issues'[RowId(r)].blockerKeys)
                /\ k \in OutwardRefs(r) => k \in Range(issues'[RowId(r)].blockedKeys)]_vars

====
